---- MODULE Spec2Model ----
(***************************************************************************)
(* A model of pyredex/utils.py: the dex discovery utilities, and the       *)
(* ZipManager / UnpackManager / LibraryManager context managers.           *)
(*                                                                         *)
(* File names are sequences of one-character strings, so that the string   *)
(* operations of the code (sorting, endswith, the regular expression of    *)
(* extract_dex_number, glob's hidden-file rule) are computed, not assumed. *)
(* A path below the extracted tree is a sequence of names.                 *)
(***************************************************************************)
EXTENDS Integers, Sequences, FiniteSets, TLC

VARIABLES
    \* ---- dex_glob (a pure function of a directory listing)
    dexFiles,        \* names present in the directory
    dexFiles0,       \* the directory as it was before the call
    dexIsDir,        \* the names among dexFiles that are directories
    dexOut,          \* outcome of dex_glob: [status, value, listing]
    \* ---- the filesystem below extracted_apk_dir
    tree,            \* set of file paths (relative to extracted_apk_dir)
    emptyFiles,      \* the files of tree whose size is 0
    dirs,            \* directories created explicitly by os.mkdir
    \* ---- ZipManager
    per_file_compression,  \* class attribute: path -> compress_type
    input_apk,             \* the instance's input archive: path -> compress_type
    input_empty,           \* the entries of the input archive that have no bytes
    extracted_apk_dir,     \* [abs, comps]: the directory argument
    output_apk,            \* <<>> when absent, else <<entries>> (a sequence of <<path, type>>)
    zpc,                   \* "new" | "entered" | "exited"
    zrun,                  \* number of ZipManager instances constructed so far
    touched,               \* number of changes the body made to the tree
    \* ---- UnpackManager
    application_modules,   \* the instance attribute set by __enter__
    detectable,            \* what ApplicationModule.detect would return now
    calls,                 \* the calls made on the collaborators, in order
    store_files,           \* the value returned by __enter__
    upc,                   \* "new" | "entered" | "enter_failed" | "exited" | "exit_failed"
    \* ---- LibraryManager
    temporary_libs_dir,    \* <<>> for None, else <<path>>
    libs_to_extract,       \* the expansion queue built by __enter__
    decompressions,        \* the decompression commands invoked, in order
    tree0,                 \* the tree, the empty files and the directories
    dirs0,                 \*   as they were before LibraryManager.__enter__
    lpc,                   \* "new" | "entered" | "enter_failed" | "exited"
    \* ---- the run that composes the managers
    pc,                    \* position of the orchestrator
    bodyResult,            \* "pending" | "ok" | "raised": the transformation step
    \* ---- argparse_yes_no_flag
    flag_name,             \* the arguments of the registration
    on_prefix,
    off_prefix,
    argv,                  \* the command line arguments still to parse
    parsed,                \* the spellings already parsed: "on" | "off", in order
    namespace,             \* the value of the destination field
    \* ---- make_temp_dir / remove_temp_dirs / with_temp_cleanup
    temp_dirs,             \* the module's list of registered directories
    tmpExisting,           \* the directories made by mkdtemp that exist on disk
    tmpMade,               \* number of directories mkdtemp has made
    always_clean,          \* the argument of with_temp_cleanup
    tpc,                   \* "new" | "running" | "returned" | "raised"
    \* ---- move_dexen_to_directories
    dexpaths,              \* the argument
    mvFiles,               \* the files on disk, as path strings
    mvFiles0,              \*   and as they were before the call
    mvDirs,                \* the directories on disk below root
    mvDirs0,               \*   and as they were before the call
    mvOut                  \* outcome of the call: [status, value]

dexVars == <<dexFiles, dexFiles0, dexIsDir, dexOut>>
fsVars == <<tree, emptyFiles, dirs>>
zipVars == <<per_file_compression, input_apk, input_empty, extracted_apk_dir, output_apk,
             zpc, zrun, touched>>
unpackVars == <<application_modules, detectable, calls, store_files, upc>>
libVars == <<temporary_libs_dir, libs_to_extract, decompressions, tree0, dirs0, lpc>>
pipeVars == <<pc, bodyResult>>
flagVars == <<flag_name, on_prefix, off_prefix, argv, parsed, namespace>>
tempVars == <<temp_dirs, tmpExisting, tmpMade, always_clean, tpc>>
moveVars == <<dexpaths, mvFiles, mvFiles0, mvDirs, mvDirs0, mvOut>>
utilVars == <<flagVars, tempVars, moveVars>>
vars == <<dexVars, fsVars, zipVars, unpackVars, libVars, pipeVars, utilVars>>

(***************************************************************************)
(* Bounds of the model.                                                    *)
(***************************************************************************)
MaxDirFiles == 4     \* files in a directory handed to dex_glob
MaxRuns == 2         \* ZipManager instances constructed in one process
MaxTouch == 1        \* changes the body makes to the extracted tree
MaxModules == 3      \* length of the list returned by module detection
MaxArgs == 3         \* occurrences of the flag on a command line
MaxTemp == 4         \* directories made by make_temp_dir in one run
MaxMove == 3         \* length of the list handed to move_dexen_to_directories

(***************************************************************************)
(* Characters and strings.                                                 *)
(***************************************************************************)
\* The characters used, in ascending code point order (Python compares
\* strings by code point).
Ascii ==
    << "-", ".", "/",
       "0", "1", "2", "3", "4", "5", "6", "7", "8", "9",
       "A", "B", "C", "D", "E", "F", "G", "H", "I", "J", "K", "L", "M",
       "N", "O", "P", "Q", "R", "S", "T", "U", "V", "W", "X", "Y", "Z",
       "_",
       "a", "b", "c", "d", "e", "f", "g", "h", "i", "j", "k", "l", "m",
       "n", "o", "p", "q", "r", "s", "t", "u", "v", "w", "x", "y", "z" >>

Chars == {Ascii[i] : i \in 1..Len(Ascii)}

Ord == [c \in Chars |-> CHOOSE i \in 1..Len(Ascii) : Ascii[i] = c]

Digits == {"0", "1", "2", "3", "4", "5", "6", "7", "8", "9"}

\* str < str
StrLess(a, b) ==
    \E k \in 1..(Len(a) + 1) :
        /\ k <= Len(b)
        /\ \A i \in 1..(k - 1) : a[i] = b[i]
        /\ \/ k = Len(a) + 1
           \/ Ord[a[k]] < Ord[b[k]]

startswith(s, prefix) ==
    /\ Len(prefix) <= Len(s)
    /\ SubSeq(s, 1, Len(prefix)) = prefix

endswith(s, suffix) ==
    /\ Len(suffix) <= Len(s)
    /\ SubSeq(s, Len(s) - Len(suffix) + 1, Len(s)) = suffix

\* int() of a run of decimal digits
RECURSIVE int(_)
int(ds) ==
    IF ds = <<>> THEN 0
    ELSE 10 * int(SubSeq(ds, 1, Len(ds) - 1)) + (Ord[ds[Len(ds)]] - Ord["0"])

\* sorted(names): insertion of x into an ascending sequence of strings,
\* after the elements that are not greater (Python's sort is stable).
RECURSIVE InsertName(_, _)
InsertName(s, x) ==
    IF s = <<>> THEN <<x>>
    ELSE IF StrLess(x, s[Len(s)])
         THEN Append(InsertName(SubSeq(s, 1, Len(s) - 1), x), s[Len(s)])
         ELSE Append(s, x)

RECURSIVE sorted(_)
sorted(s) ==
    IF s = <<>> THEN <<>>
    ELSE InsertName(sorted(SubSeq(s, 1, Len(s) - 1)), s[Len(s)])

\* The orders in which a set can be enumerated.
Enumerations(S) ==
    {f \in [1..Cardinality(S) -> S] : \A i, j \in 1..Cardinality(S) : f[i] = f[j] => i = j}

Range(s) == {s[i] : i \in 1..Len(s)}

SetMax(S) == CHOOSE x \in S : \A y \in S : y <= x
SetMin(S) == CHOOSE x \in S : \A y \in S : x <= y

\* os.path.join of two strings
join(a, b) ==
    IF b # <<>> /\ b[1] = "/" THEN b
    ELSE IF a = <<>> \/ a[Len(a)] = "/" THEN a \o b
    ELSE a \o <<"/">> \o b

\* os.path.basename: what follows the last "/"
basename(p) ==
    LET slashes == {i \in 1..Len(p) : p[i] = "/"}
    IN IF slashes = {} THEN p ELSE SubSeq(p, SetMax(slashes) + 1, Len(p))

\* glob's "*": any name that does not start with "."
GlobStar(name) == name # <<>> /\ name[1] # "."

\* glob's "*.dex"
GlobStarDex(name) == GlobStar(name) /\ endswith(name, <<".", "d", "e", "x">>)

(***************************************************************************)
(* Dex discovery: extract_dex_number and dex_glob.                         *)
(***************************************************************************)
classes_dex == <<"c", "l", "a", "s", "s", "e", "s", ".", "d", "e", "x">>
classes2_dex == <<"c", "l", "a", "s", "s", "e", "s", "2", ".", "d", "e", "x">>
classes10_dex == <<"c", "l", "a", "s", "s", "e", "s", "1", "0", ".", "d", "e", "x">>
foo_3_dex == <<"f", "o", "o", "-", "3", ".", "d", "e", "x">>
bar_2_dex == <<"b", "a", "r", "-", "2", ".", "d", "e", "x">>
a_7_1_dex == <<"a", "-", "7", "-", "1", ".", "d", "e", "x">>
extra_dex == <<"e", "x", "t", "r", "a", ".", "d", "e", "x">>
xclasses_dex == <<"x", "c", "l", "a", "s", "s", "e", "s", ".", "d", "e", "x">>
hidden_4_dex == <<".", "h", "-", "4", ".", "d", "e", "x">>
classes2_5_dex == <<"c", "l", "a", "s", "s", "e", "s", "2", "-", "5", ".", "d", "e", "x">>
xclasses3_dex == <<"x", "c", "l", "a", "s", "s", "e", "s", "3", ".", "d", "e", "x">>
notes_txt == <<"n", "o", "t", "e", "s", ".", "t", "x", "t">>

\* The names a directory handed to dex_glob is drawn from.
DexNames ==
    { classes_dex, classes2_dex, classes10_dex, foo_3_dex, bar_2_dex, a_7_1_dex,
      extra_dex, xclasses_dex, hidden_4_dex, notes_txt, classes2_5_dex, xclasses3_dex }

\* The directory argument of dex_glob.
DexDirectory == <<"/", "t", "/", "d">>

\* Last index of the run of digits that starts at index i (\d+ is greedy).
DigitRunEnd(s, i) ==
    SetMax({j \in i..Len(s) : \A k \in i..j : s[k] \in Digits})

\* A mutation of MatchAt: the second alternative is not greedy, it ends at
\* the first hyphen that a digit follows.
MatchAtLazy(s, i) ==
    LET lit == <<"c", "l", "a", "s", "s", "e", "s">>
        hy == {j \in i..(Len(s) - 1) : s[j] = "-" /\ s[j + 1] \in Digits}
    IN IF /\ startswith(SubSeq(s, i, Len(s)), lit)
          /\ i + Len(lit) <= Len(s)
          /\ s[i + Len(lit)] \in Digits
       THEN i + Len(lit)
       ELSE IF hy # {} THEN SetMin(hy) + 1 ELSE 0

\* (classes|.*-)(\d+) matched with its first character at index i: the index
\* where group 2 starts, or 0.  The first alternative is tried first; the
\* second is greedy, so it ends at the last hyphen that a digit follows.
MatchAt(s, i) ==
    LET lit == <<"c", "l", "a", "s", "s", "e", "s">>
        hy == {j \in i..(Len(s) - 1) : s[j] = "-" /\ s[j + 1] \in Digits}
    IN IF /\ startswith(SubSeq(s, i, Len(s)), lit)
          /\ i + Len(lit) <= Len(s)
          /\ s[i + Len(lit)] \in Digits
       THEN i + Len(lit)
       ELSE IF hy # {} THEN SetMax(hy) + 1 ELSE 0

\* re.search: the match at the leftmost index that has one; 0 for None.
re_search(s) ==
    LET at == {i \in 1..Len(s) : MatchAt(s, i) # 0}
    IN IF at = {} THEN 0 ELSE MatchAt(s, SetMin(at))

extract_dex_number(dexfilename) ==
    LET b == basename(dexfilename)
        g == re_search(b)
    IN IF g = 0
       THEN [raised |-> TRUE, value |-> 0]
       ELSE [raised |-> FALSE, value |-> int(SubSeq(b, g, DigitRunEnd(b, g)))]

\* secondaries.sort(key=extract_dex_number): stable insertion by key
RECURSIVE InsertByDexNumber(_, _)
InsertByDexNumber(s, x) ==
    IF s = <<>> THEN <<x>>
    ELSE IF extract_dex_number(x).value < extract_dex_number(s[Len(s)]).value
         THEN Append(InsertByDexNumber(SubSeq(s, 1, Len(s) - 1), x), s[Len(s)])
         ELSE Append(s, x)

\* A mutation of SortByDexNumber: the paths are compared as strings.
SortByName(s) == sorted(s)

RECURSIVE SortByDexNumber(_)
SortByDexNumber(s) ==
    IF s = <<>> THEN <<>>
    ELSE InsertByDexNumber(SortByDexNumber(SubSeq(s, 1, Len(s) - 1)), s[Len(s)])

\* A mutation of PrimaryIsFile: os.path.exists in place of isfile.
PrimaryExists(files, isdir) == classes_dex \in files

\* isfile(join(directory, "classes.dex"))
PrimaryIsFile(files, isdir) == classes_dex \in files \ isdir

\* not d.endswith("classes.dex")
IsSecondary(d) == ~endswith(d, classes_dex)

\* dex_glob(directory), for a directory holding `files` (of which `isdir` are
\* directories) that glob enumerates in the order `listing`.
dex_glob(directory, files, isdir, listing) ==
    LET primary == join(directory, classes_dex)
        globbed == [i \in 1..Len(listing) |-> join(directory, listing[i])]
        secondaries == SelectSeq(globbed, IsSecondary)
    IN IF ~PrimaryIsFile(files, isdir)
       THEN [status |-> "error", msg |-> "No primary dex found", value |-> <<>>]
       ELSE IF \E i \in 1..Len(secondaries) : extract_dex_number(secondaries[i]).raised
       THEN [status |-> "error", msg |-> "Bad secondary dex name", value |-> <<>>]
       ELSE [status |-> "ok", msg |-> "", value |-> <<primary>> \o SortByDexNumber(secondaries)]

(***************************************************************************)
(* The extracted tree and archives.                                        *)
(***************************************************************************)
META_INF == <<"M", "E", "T", "A", "-", "I", "N", "F">>
CERT_RSA == <<"C", "E", "R", "T", ".", "R", "S", "A">>
dot_sig == <<".", "s", "i", "g">>
svc == <<"s", "v", "c">>
x_name == <<"x">>
lib == <<"l", "i", "b">>
a_so == <<"a", ".", "s", "o">>
b_so == <<"b", ".", "s", "o">>
new_bin == <<"n", "e", "w", ".", "b", "i", "n">>

\* The file paths the entries of an input archive are drawn from.
ZipPaths ==
    { <<classes_dex>>, <<META_INF, CERT_RSA>>, <<META_INF, svc, x_name>>, <<lib, a_so>> }

\* The file paths the body may create in the extracted tree.
BodyPaths == ZipPaths \cup { <<lib, b_so>>, <<META_INF, dot_sig>>, <<new_bin>> }

\* The directory arguments: an absolute one and a relative one.
ExtractedDirs == { <<"/", "t", "/", "x">>, <<"o", "u", "t">> }

ZIP_STORED == "ZIP_STORED"
ZIP_DEFLATED == "ZIP_DEFLATED"
Methods == {ZIP_STORED, ZIP_DEFLATED}

\* The archive-relative name of a path: its names joined by "/".
RECURSIVE ArchiveName(_)
ArchiveName(p) ==
    IF Len(p) = 1 THEN p[1]
    ELSE join(ArchiveName(SubSeq(p, 1, Len(p) - 1)), p[Len(p)])

\* The path an archive-relative name is extracted to: its "/"-separated names.
RECURSIVE SplitPath(_)
SplitPath(name) ==
    LET slashes == {i \in 1..Len(name) : name[i] = "/"}
    IN IF slashes = {} THEN <<name>>
       ELSE LET i == SetMin(slashes)
            IN <<SubSeq(name, 1, i - 1)>> \o SplitPath(SubSeq(name, i + 1, Len(name)))

ZipNames == {ArchiveName(p) : p \in ZipPaths}

\* The input archives: file entries with distinct relative names, each
\* with its compress_type.
Archives == UNION {[S -> Methods] : S \in SUBSET ZipNames}

EmptyDict == [n \in {} |-> ZIP_DEFLATED]

IsPrefix(a, b) == Len(a) <= Len(b) /\ SubSeq(b, 1, Len(a)) = a

\* The location of the tree's file p, as a string.
FilePath(directory, p) == join(directory, ArchiveName(p))

\* os.path.isfile of a string, in a filesystem whose files are those of the
\* tree t below `directory`.
isfile(s, directory, t) == \E p \in t : FilePath(directory, p) = s

\* The names directly in the tree's directory `prefix`: files, directories.
FileNamesIn(t, prefix) ==
    {p[Len(prefix) + 1] : p \in {q \in t : Len(q) = Len(prefix) + 1 /\ IsPrefix(prefix, q)}}

DirNamesIn(t, ds, prefix) ==
    {p[Len(prefix) + 1] : p \in {q \in t : Len(q) > Len(prefix) + 1 /\ IsPrefix(prefix, q)}}
    \cup {d[Len(prefix) + 1] : d \in {q \in ds : Len(q) > Len(prefix) /\ IsPrefix(prefix, q)}}

\* abs_glob(directory, "META-INF/*"): glob returns join(directory, "META-INF/<name>")
\* for every entry of META-INF that "*" matches; abs_glob joins the directory
\* to that result once more.
abs_glob(directory, t, ds) ==
    {join(directory, join(directory, join(META_INF, n))) :
        n \in {m \in FileNamesIn(t, <<META_INF>>) \cup DirNamesIn(t, ds, <<META_INF>>) :
                  GlobStar(m)}}

\* remove_signature_files: the tree after it.
remove_signature_files(directory, t, ds) ==
    t \ {p \in t : \E f \in abs_glob(directory, t, ds) :
                      /\ isfile(join(directory, f), directory, t)
                      /\ FilePath(directory, p) = join(directory, f)}

(***************************************************************************)
(* os.walk, as ZipManager.__exit__ uses it.                                *)
(***************************************************************************)
\* The orders in which the filesystem may enumerate a directory.
FsOrders == {"ascending", "descending", "rotated"}

RECURSIVE SetToSeq(_)
SetToSeq(S) ==
    IF S = {} THEN <<>>
    ELSE LET x == CHOOSE y \in S : TRUE IN <<x>> \o SetToSeq(S \ {x})

Reverse(s) == [i \in 1..Len(s) |-> s[Len(s) + 1 - i]]

\* os.listdir: the names S in the filesystem's order.
Listing(S, ord) ==
    LET asc == sorted(SetToSeq(S))
    IN IF S = {} THEN <<>>
       ELSE IF ord = "ascending" THEN asc
       ELSE IF ord = "descending" THEN Reverse(asc)
       ELSE Tail(asc) \o <<Head(asc)>>

\* A mutation of the two sorts below: the names left in the filesystem's order.
Unsorted(names) == names

\* dirnames.sort()
SortDirnames(names) == sorted(names)

\* sorted(filenames)
SortFilenames(names) == sorted(names)

\* The dirpath os.walk reports for the tree's directory `prefix`.
RECURSIVE DirPath(_, _)
DirPath(top, prefix) ==
    IF prefix = <<>> THEN top
    ELSE join(DirPath(top, SubSeq(prefix, 1, Len(prefix) - 1)), prefix[Len(prefix)])

\* The filepaths written by the loop of __exit__, in order: the files of a
\* directory, then its subdirectories in the order of dirnames.
RECURSIVE WalkFiles(_, _, _, _, _)
RECURSIVE WalkSubdirs(_, _, _, _, _, _)
WalkFiles(top, t, ds, prefix, ord) ==
    LET filenames == SortFilenames(Listing(FileNamesIn(t, prefix), ord))
        dirnames == SortDirnames(Listing(DirNamesIn(t, ds, prefix), ord))
    IN [i \in 1..Len(filenames) |-> join(DirPath(top, prefix), filenames[i])]
       \o WalkSubdirs(top, t, ds, prefix, dirnames, ord)

WalkSubdirs(top, t, ds, prefix, dirnames, ord) ==
    IF dirnames = <<>> THEN <<>>
    ELSE WalkFiles(top, t, ds, Append(prefix, Head(dirnames)), ord)
         \o WalkSubdirs(top, t, ds, prefix, Tail(dirnames), ord)

(***************************************************************************)
(* ZipManager.                                                             *)
(***************************************************************************)
\* __enter__: self.per_file_compression[info.filename] = info.compress_type
\* for every entry of the input archive (the dictionary is the class's).
RecordCompression(dict, archive) ==
    [n \in DOMAIN dict \cup DOMAIN archive |->
        IF n \in DOMAIN archive THEN archive[n] ELSE dict[n]]

\* A mutation of CompressType: the recorded compress_type is not looked up.
AlwaysDeflated(dict, archivepath) == ZIP_DEFLATED

\* __exit__: self.per_file_compression[archivepath], ZIP_DEFLATED on KeyError
CompressType(dict, archivepath) ==
    IF archivepath \in DOMAIN dict THEN dict[archivepath] ELSE ZIP_DEFLATED

\* filepath[len(self.extracted_apk_dir) + 1:]
ArchivePath(directory, filepath) ==
    SubSeq(filepath, Len(directory) + 2, Len(filepath))

\* The entries new_apk.write adds, in order, for the tree t.
WrittenEntries(directory, t, ds, dict, ord) ==
    LET filepaths == WalkFiles(directory, t, ds, <<>>, ord)
    IN [i \in 1..Len(filepaths) |->
          <<ArchivePath(directory, filepaths[i]),
            CompressType(dict, ArchivePath(directory, filepaths[i]))>>]

\* ZipManager.__enter__
ZipEnterStep ==
    /\ zpc = "new"
    /\ per_file_compression' = RecordCompression(per_file_compression, input_apk)
    /\ tree' = tree \cup {SplitPath(n) : n \in DOMAIN input_apk}
    /\ emptyFiles' = emptyFiles \cup {SplitPath(n) : n \in input_empty}
    /\ zpc' = "entered"
    /\ UNCHANGED <<input_apk, input_empty, extracted_apk_dir, output_apk, zrun, touched, dirs>>

\* ZipManager.__exit__: the signature files are removed, an existing output
\* is replaced, and the tree is written in walk order.
ZipExitStep ==
    /\ zpc = "entered"
    /\ \E ord \in FsOrders :
          LET t1 == remove_signature_files(extracted_apk_dir, tree, dirs)
          IN /\ tree' = t1
             /\ emptyFiles' = emptyFiles \cap t1
             /\ output_apk' =
                   <<WrittenEntries(extracted_apk_dir, t1, dirs, per_file_compression, ord)>>
    /\ zpc' = "exited"
    /\ UNCHANGED <<per_file_compression, input_apk, input_empty, extracted_apk_dir,
                   zrun, touched, dirs>>

\* ZipManager.__init__ of a further instance in the same process, with an
\* extracted directory and an output of its own.
ZipNewStep ==
    /\ zpc = "exited"
    /\ zrun < MaxRuns
    /\ \E archive \in Archives : input_apk' = archive
    /\ input_empty' = {}
    /\ zrun' = zrun + 1
    /\ zpc' = "new"
    /\ touched' = 0
    /\ output_apk' = <<>>
    /\ tree' = {}
    /\ emptyFiles' = {}
    /\ UNCHANGED <<per_file_compression, extracted_apk_dir, dirs>>

\* Whether the tree t can hold a file at path p: no file of t lies on the
\* way, and p is not a directory.
CanCreate(t, ds, p) ==
    /\ p \notin t
    /\ \A q \in t \cup ds : ~IsPrefix(p, q)
    /\ \A q \in t : ~IsPrefix(q, p)

\* The body of the with-block creates a file in the extracted tree.
BodyAddStep ==
    /\ zpc = "entered"
    /\ touched < MaxTouch
    /\ \E p \in BodyPaths :
          /\ CanCreate(tree, dirs, p)
          /\ tree' = tree \cup {p}
    /\ touched' = touched + 1
    /\ UNCHANGED <<per_file_compression, input_apk, input_empty, extracted_apk_dir,
                   output_apk, zpc, zrun, emptyFiles, dirs>>

\* The body of the with-block deletes a file of the extracted tree.
BodyRemoveStep ==
    /\ zpc = "entered"
    /\ touched < MaxTouch
    /\ \E p \in tree :
          /\ tree' = tree \ {p}
          /\ emptyFiles' = emptyFiles \ {p}
    /\ touched' = touched + 1
    /\ UNCHANGED <<per_file_compression, input_apk, input_empty, extracted_apk_dir,
                   output_apk, zpc, zrun, dirs>>

(***************************************************************************)
(* UnpackManager.  The dex mode and the application modules are external   *)
(* collaborators: the model records the calls made on them, in order.      *)
(***************************************************************************)
ModuleNames == {"A", "B", "C", "D"}

\* The lists ApplicationModule.detect may return: distinct modules, in any
\* order.
Detections ==
    UNION {{f \in [1..n -> ModuleNames] : \A i, j \in 1..n : f[i] = f[j] => i = j} :
              n \in 0..MaxModules}

\* The loop of __enter__ over the modules: per module mkdir, unpackage,
\* write_redex_metadata.  failAt is the position of the module whose
\* unpackage raises (0: none does).
RECURSIVE EnterCalls(_, _, _)
EnterCalls(modules, k, failAt) ==
    IF k > Len(modules) THEN <<>>
    ELSE IF k = failAt
         THEN << <<"mkdir", modules[k]>>, <<"unpackage", modules[k]>> >>
         ELSE << <<"mkdir", modules[k]>>, <<"unpackage", modules[k]>>,
                 <<"write_redex_metadata", modules[k]>> >>
              \o EnterCalls(modules, k + 1, failAt)

\* A mutation of StoreFiles: the paths are accumulated in reverse order.
StoreFilesReversed(modules) ==
    [k \in 1..Len(modules) |->
        <<"store_metadata_dir", modules[Len(modules) + 1 - k], ".json">>]

\* store_files: os.path.join(store_metadata_dir, module.get_name() + ".json")
StoreFiles(modules) ==
    [k \in 1..Len(modules) |-> <<"store_metadata_dir", modules[k], ".json">>]

\* The loop of __exit__: module.repackage with locator_store_id, which is
\* incremented after each call.  failAt is the position of the module whose
\* repackage raises (0: none does); the exception is recorded after the call.
RECURSIVE RepackCalls(_, _, _)
RepackCalls(modules, locator_store_id, failAt) ==
    IF locator_store_id > Len(modules) THEN <<>>
    ELSE IF locator_store_id = failAt
         THEN << <<"repackage", modules[locator_store_id], locator_store_id>>,
                 <<"raised", modules[locator_store_id]>> >>
         ELSE << <<"repackage", modules[locator_store_id], locator_store_id>> >>
              \o RepackCalls(modules, locator_store_id + 1, failAt)

\* A mutation of ExitCalls: the modules are repacked before the dex mode.
ModulesFirst(modules, dexFails, failAt) ==
    RepackCalls(modules, 1, failAt) \o << <<"dex_repackage">> >>

\* The calls of __exit__: self.dex_mode.repackage, which may raise, and
\* when it has returned the loop over the modules.
ExitCalls(modules, dexFails, failAt) ==
    IF dexFails
    THEN << <<"dex_repackage">>, <<"raised", "dex_mode">> >>
    ELSE << <<"dex_repackage">> >> \o RepackCalls(modules, 1, failAt)

\* A mutation of ModulesAtExit: detection is run again at exit.
ModulesRedetected(kept, now) == now

\* The modules __exit__ iterates over: self.application_modules.
ModulesAtExit(kept, now) == kept

\* UnpackManager.__enter__
UnpackEnterStep ==
    /\ upc = "new"
    /\ application_modules' = detectable
    /\ \E failAt \in 0..Len(detectable) :
          /\ calls' = calls \o << <<"dex_unpackage">>, <<"detect", detectable>> >>
                            \o EnterCalls(detectable, 1, failAt)
          /\ IF failAt = 0
             THEN upc' = "entered" /\ store_files' = StoreFiles(detectable)
             ELSE upc' = "enter_failed" /\ store_files' = <<>>
    /\ UNCHANGED detectable

\* The body changes the tree, and with it what detection would return.
UnpackBodyStep ==
    /\ upc = "entered"
    /\ \E d \in Detections : d # detectable /\ detectable' = d
    /\ UNCHANGED <<application_modules, calls, store_files, upc>>

\* UnpackManager.__exit__: the dex mode is repacked, then every module.
UnpackExitStep ==
    /\ upc = "entered"
    /\ LET modules == ModulesAtExit(application_modules, detectable)
       IN \E dexFails \in BOOLEAN, failAt \in 0..Len(modules) :
             /\ dexFails => failAt = 0
             /\ calls' = calls \o ExitCalls(modules, dexFails, failAt)
             /\ upc' = IF ~dexFails /\ failAt = 0 THEN "exited" ELSE "exit_failed"
    /\ UNCHANGED <<application_modules, detectable, store_files>>

(***************************************************************************)
(* LibraryManager.                                                         *)
(***************************************************************************)
assets == <<"a", "s", "s", "e", "t", "s">>
m_dir == <<"m">>
libs_xzs == <<"l", "i", "b", "s", ".", "x", "z", "s">>
libs_zstd == <<"l", "i", "b", "s", ".", "z", "s", "t", "d">>
extracted_libs ==
    <<"_", "_", "e", "x", "t", "r", "a", "c", "t", "e", "d", "_", "l", "i", "b", "s", "_", "_">>

\* The file paths the tree scanned by LibraryManager is drawn from.
LibPaths ==
    { <<assets, libs_xzs>>, <<assets, libs_zstd>>, <<m_dir, libs_zstd>>,
      <<lib, a_so>>, <<lib, extracted_libs, x_name>> }

\* str() of a natural number
RECURSIVE str(_)
str(n) ==
    IF n < 10 THEN <<Ascii[Ord["0"] + n]>>
    ELSE str(n \div 10) \o <<Ascii[Ord["0"] + (n % 10)]>>

\* "lib_{}.so".format(lib_count)
LibSoName(lib_count) == <<"l", "i", "b", "_">> \o str(lib_count) \o <<".", "s", "o">>

\* A mutation of NonEmpty: the size of the file is not looked at.
AnySize(p, empties) == TRUE

\* os.path.getsize(fullpath) > 0
NonEmpty(p, empties) == p \notin empties

\* The walk of __enter__: per directory, in the order os.walk visits them
\* (the directory names are not sorted here), libs.xzs and then a non-empty
\* libs.zstd are queued.
RECURSIVE LibWalk(_, _, _, _, _, _)
RECURSIVE LibWalkSubdirs(_, _, _, _, _, _, _)
LibWalk(top, t, ds, empties, prefix, ord) ==
    LET filenames == FileNamesIn(t, prefix)
        root == DirPath(top, prefix)
        xz == IF libs_xzs \in filenames THEN <<join(root, libs_xzs)>> ELSE <<>>
        zstd == IF libs_zstd \in filenames /\ NonEmpty(Append(prefix, libs_zstd), empties)
                THEN <<join(root, libs_zstd)>> ELSE <<>>
    IN xz \o zstd
       \o LibWalkSubdirs(top, t, ds, empties, prefix,
                         Listing(DirNamesIn(t, ds, prefix), ord), ord)

LibWalkSubdirs(top, t, ds, empties, prefix, dirnames, ord) ==
    IF dirnames = <<>> THEN <<>>
    ELSE LibWalk(top, t, ds, empties, Append(prefix, Head(dirnames)), ord)
         \o LibWalkSubdirs(top, t, ds, empties, prefix, Tail(dirnames), ord)

\* os.path.exists of a path of the tree
Exists(t, ds, p) == p \in ds \/ \E q \in t : IsPrefix(p, q)

\* A mutation of ensure_libs_dir: the base directory is returned also when
\* it existed.
ReturnsLibsDir(t, ds, libs_dir, sub_dir) ==
    IF Exists(t, ds, libs_dir)
    THEN IF Exists(t, ds, sub_dir) \/ libs_dir \in t
         THEN [raised |-> TRUE, created |-> {}, ret |-> <<>>]
         ELSE [raised |-> FALSE, created |-> {sub_dir}, ret |-> libs_dir]
    ELSE [raised |-> FALSE, created |-> {libs_dir, sub_dir}, ret |-> libs_dir]

\* ensure_libs_dir: the directories it creates and the one it returns;
\* os.mkdir raises when its directory exists.
ensure_libs_dir(t, ds, libs_dir, sub_dir) ==
    IF Exists(t, ds, libs_dir)
    THEN IF Exists(t, ds, sub_dir) \/ libs_dir \in t
         THEN [raised |-> TRUE, created |-> {}, ret |-> <<>>]
         ELSE [raised |-> FALSE, created |-> {sub_dir}, ret |-> sub_dir]
    ELSE [raised |-> FALSE, created |-> {libs_dir, sub_dir}, ret |-> libs_dir]

\* The command run for the lib_count-th queued file.
DecompressCommand(top, queue, lib_count) ==
    [tool |-> IF endswith(queue[lib_count + 1], libs_xzs) THEN "xz" ELSE "zstd",
     src |-> queue[lib_count + 1],
     dst |-> join(join(join(top, lib), extracted_libs), LibSoName(lib_count))]

\* LibraryManager.__enter__.  A decompression command may exit non-zero
\* (failAt: the position of the one that does, 0 for none), and check_call
\* then raises; the shell of the xz command has created its output by then,
\* zstd may or may not have (leftover).
LibEnterStep ==
    /\ lpc = "new"
    /\ tree0' = tree
    /\ dirs0' = dirs
    /\ \E ord \in FsOrders :
          LET queue == LibWalk(extracted_apk_dir, tree, dirs, emptyFiles, <<>>, ord)
              libs_dir == <<lib>>
              extracted_dir == <<lib, extracted_libs>>
              made == ensure_libs_dir(tree, dirs, libs_dir, extracted_dir)
          IN /\ libs_to_extract' = queue
             /\ IF Len(queue) = 0
                THEN /\ lpc' = "entered"
                     /\ UNCHANGED <<temporary_libs_dir, decompressions, tree, dirs>>
                ELSE IF made.raised
                THEN /\ lpc' = "enter_failed"
                     /\ UNCHANGED <<temporary_libs_dir, decompressions, tree, dirs>>
                ELSE \E failAt \in 0..Len(queue), leftover \in BOOLEAN :
                        LET invoked == IF failAt = 0 THEN Len(queue) ELSE failAt
                            cmds == [k \in 1..invoked |->
                                        DecompressCommand(extracted_apk_dir, queue, k - 1)]
                            written == {k \in 1..invoked :
                                           \/ k # failAt
                                           \/ cmds[k].tool = "xz"
                                           \/ leftover}
                        IN /\ temporary_libs_dir' = <<made.ret>>
                           /\ dirs' = dirs \cup made.created
                           /\ decompressions' = cmds
                           /\ tree' = tree \cup
                                 {Append(extracted_dir, LibSoName(k - 1)) : k \in written}
                           /\ lpc' = IF failAt = 0 THEN "entered" ELSE "enter_failed"
    /\ UNCHANGED <<emptyFiles, extracted_apk_dir>>

\* A mutation of rmtree: nothing is deleted.
KeepTree(paths, root) == paths

\* shutil.rmtree(root): the paths (files or directories) left
rmtree(paths, root) == {p \in paths : ~IsPrefix(root, p)}

\* LibraryManager.__exit__: shutil.rmtree(self.temporary_libs_dir) unless
\* it is None.
LibExitStep ==
    /\ lpc = "entered"
    /\ IF temporary_libs_dir # <<>>
       THEN /\ tree' = rmtree(tree, temporary_libs_dir[1])
            /\ dirs' = rmtree(dirs, temporary_libs_dir[1])
            /\ emptyFiles' = rmtree(emptyFiles, temporary_libs_dir[1])
       ELSE UNCHANGED <<tree, dirs, emptyFiles>>
    /\ lpc' = "exited"
    /\ UNCHANGED <<temporary_libs_dir, libs_to_extract, decompressions, tree0, dirs0,
                   extracted_apk_dir>>

(***************************************************************************)
(* Initial values of the parts a specification does not exercise.          *)
(***************************************************************************)
NoDexOut == [status |-> "none", msg |-> "", value |-> <<>>]

DexIdle ==
    /\ dexFiles = {}
    /\ dexFiles0 = {}
    /\ dexIsDir = {}
    /\ dexOut = NoDexOut

FsEmpty ==
    /\ tree = {}
    /\ emptyFiles = {}
    /\ dirs = {}

ZipIdle ==
    /\ per_file_compression = EmptyDict
    /\ input_apk = EmptyDict
    /\ input_empty = {}
    /\ extracted_apk_dir = <<"/", "t", "/", "x">>
    /\ output_apk = <<>>
    /\ zpc = "idle"
    /\ zrun = 0
    /\ touched = 0

UnpackIdle ==
    /\ application_modules = <<>>
    /\ detectable = <<>>
    /\ calls = <<>>
    /\ store_files = <<>>
    /\ upc = "idle"

LibIdle ==
    /\ temporary_libs_dir = <<>>
    /\ libs_to_extract = <<>>
    /\ decompressions = <<>>
    /\ tree0 = {}
    /\ dirs0 = {}
    /\ lpc = "idle"

FlagIdle ==
    /\ flag_name = <<>>
    /\ on_prefix = <<>>
    /\ off_prefix = <<>>
    /\ argv = <<>>
    /\ parsed = <<>>
    /\ namespace = FALSE

TempIdle ==
    /\ temp_dirs = <<>>
    /\ tmpExisting = {}
    /\ tmpMade = 0
    /\ always_clean = FALSE
    /\ tpc = "idle"

MoveIdle ==
    /\ dexpaths = <<>>
    /\ mvFiles = {}
    /\ mvFiles0 = {}
    /\ mvDirs = {}
    /\ mvDirs0 = {}
    /\ mvOut = [status |-> "none", value |-> <<>>]

UtilIdle == FlagIdle /\ TempIdle /\ MoveIdle

(***************************************************************************)
(* SpecDex: dex_glob applied to a directory.                               *)
(***************************************************************************)
InitDex ==
    /\ dexFiles \in {S \in SUBSET DexNames : Cardinality(S) <= MaxDirFiles}
    /\ dexFiles0 = dexFiles
    /\ dexIsDir \in SUBSET (dexFiles \cap {classes_dex})
    /\ dexOut = NoDexOut
    /\ FsEmpty /\ ZipIdle /\ UnpackIdle /\ LibIdle
    /\ pc = "none"
    /\ bodyResult = "pending"
    /\ UtilIdle

\* A call of dex_glob; glob enumerates the matching names in any order.
DexGlob ==
    /\ dexOut.status = "none"
    /\ \E listing \in Enumerations({n \in dexFiles : GlobStarDex(n)}) :
          dexOut' = dex_glob(DexDirectory, dexFiles, dexIsDir, listing)
    /\ UNCHANGED <<dexFiles, dexFiles0, dexIsDir>>
    /\ UNCHANGED <<fsVars, zipVars, unpackVars, libVars, pipeVars, utilVars>>

NextDex == DexGlob

SpecDex == InitDex /\ [][NextDex]_vars

(***************************************************************************)
(* SpecZip: ZipManager instances used one after the other in one process.  *)
(***************************************************************************)
InitZip ==
    /\ per_file_compression = EmptyDict
    /\ input_apk \in Archives
    /\ input_empty = {}
    /\ extracted_apk_dir \in ExtractedDirs
    /\ output_apk = <<>>
    /\ zpc = "new"
    /\ zrun = 1
    /\ touched = 0
    /\ FsEmpty /\ DexIdle /\ UnpackIdle /\ LibIdle
    /\ pc = "none"
    /\ bodyResult = "pending"
    /\ UtilIdle

ZipEnter == ZipEnterStep /\ UNCHANGED <<dexVars, unpackVars, libVars, pipeVars, utilVars>>

BodyAdd == BodyAddStep /\ UNCHANGED <<dexVars, unpackVars, libVars, pipeVars, utilVars>>

BodyRemove == BodyRemoveStep /\ UNCHANGED <<dexVars, unpackVars, libVars, pipeVars, utilVars>>

ZipExit == ZipExitStep /\ UNCHANGED <<dexVars, unpackVars, libVars, pipeVars, utilVars>>

ZipNew == ZipNewStep /\ UNCHANGED <<dexVars, unpackVars, libVars, pipeVars, utilVars>>

NextZip ==
    \/ ZipEnter
    \/ BodyAdd
    \/ BodyRemove
    \/ ZipExit
    \/ ZipNew

SpecZip == InitZip /\ [][NextZip]_vars

(***************************************************************************)
(* SpecUnpack: one UnpackManager, entered and exited.                      *)
(***************************************************************************)
InitUnpack ==
    /\ application_modules = <<>>
    /\ detectable \in Detections
    /\ calls = <<>>
    /\ store_files = <<>>
    /\ upc = "new"
    /\ FsEmpty /\ DexIdle /\ ZipIdle /\ LibIdle
    /\ pc = "none"
    /\ bodyResult = "pending"
    /\ UtilIdle

UnpackEnter == UnpackEnterStep /\ UNCHANGED <<dexVars, fsVars, zipVars, libVars, pipeVars, utilVars>>

UnpackBody == UnpackBodyStep /\ UNCHANGED <<dexVars, fsVars, zipVars, libVars, pipeVars, utilVars>>

UnpackExit == UnpackExitStep /\ UNCHANGED <<dexVars, fsVars, zipVars, libVars, pipeVars, utilVars>>

NextUnpack ==
    \/ UnpackEnter
    \/ UnpackBody
    \/ UnpackExit

SpecUnpack == InitUnpack /\ [][NextUnpack]_vars

(***************************************************************************)
(* Properties of UnpackManager (SpecUnpack).                               *)
(***************************************************************************)
\* The list module detection returned during __enter__.
DetectedAtEnter ==
    LET at == {i \in 1..Len(calls) : calls[i][1] = "detect"}
    IN calls[SetMin(at)][2]

\* The repackage calls made on modules, in order.
IsModuleRepackage(c) == c[1] = "repackage"

ModuleRepackages == SelectSeq(calls, IsModuleRepackage)

\* C3: __exit__ calls repackage on each module returned by detection during
\* __enter__ exactly once, in that order, the k-th module with locator id k,
\* whatever detection would return at exit and whatever the names are.
C3_LocatorStability ==
    /\ upc = "exited" =>
          ModuleRepackages =
             [k \in 1..Len(DetectedAtEnter) |-> <<"repackage", DetectedAtEnter[k], k>>]
    /\ upc = "exit_failed" =>
          /\ Len(ModuleRepackages) <= Len(DetectedAtEnter)
          /\ \A k \in 1..Len(ModuleRepackages) :
                ModuleRepackages[k] = <<"repackage", DetectedAtEnter[k], k>>

\* Detection returned [C, A, B] at enter, would return something else at
\* exit, and the three modules have been repacked.
C3_Witness ==
    /\ upc = "exited"
    /\ DetectedAtEnter = <<"C", "A", "B">>
    /\ detectable # DetectedAtEnter
    /\ Len(ModuleRepackages) = 3

\* The positions of the calls of a given kind in the log.
CallsOf(kind) == {i \in 1..Len(calls) : calls[i][1] = kind}

\* The positions of the calls of a given kind made on module m.
ModuleCalls(kind, m) == {i \in 1..Len(calls) : calls[i] = <<kind, m>>}

\* C16: when __enter__ returns, its result holds one metadata path per
\* detected module, in detection order, the k-th being
\* <metadata dir>/<name of the k-th module>.json; each module had its
\* subdirectory made, then its unpackage invoked, then its metadata
\* written, each once, and the primary dex unpack came before all of them.
C16_EnterResult ==
    upc \in {"entered", "exited", "exit_failed"} =>
        /\ store_files =
              [k \in 1..Len(DetectedAtEnter) |->
                  <<"store_metadata_dir", DetectedAtEnter[k], ".json">>]
        /\ Cardinality(CallsOf("dex_unpackage")) = 1
        /\ \A k \in 1..Len(DetectedAtEnter) :
              LET m == DetectedAtEnter[k]
              IN /\ Cardinality(ModuleCalls("mkdir", m)) = 1
                 /\ Cardinality(ModuleCalls("unpackage", m)) = 1
                 /\ Cardinality(ModuleCalls("write_redex_metadata", m)) = 1
                 /\ \A d \in CallsOf("dex_unpackage"), a \in ModuleCalls("mkdir", m),
                       b \in ModuleCalls("unpackage", m),
                       c \in ModuleCalls("write_redex_metadata", m) :
                       d < a /\ a < b /\ b < c

\* __enter__ has returned the three paths of the modules [C, A, B].
C16_Witness ==
    /\ upc = "entered"
    /\ DetectedAtEnter = <<"C", "A", "B">>
    /\ store_files = << <<"store_metadata_dir", "C", ".json">>,
                        <<"store_metadata_dir", "A", ".json">>,
                        <<"store_metadata_dir", "B", ".json">> >>

\* C15: __exit__ invokes dex_mode.repackage exactly once, and it has
\* returned before any module is repacked; when a repackage raises, the
\* exception leaves __exit__ and no later module is repacked.
C15_ExitOrdering ==
    upc \in {"exited", "exit_failed"} =>
        /\ Cardinality(CallsOf("dex_repackage")) = 1
        /\ \A d \in CallsOf("dex_repackage"), i \in CallsOf("repackage") : d < i
        /\ \A i \in CallsOf("raised") : i = Len(calls) /\ upc = "exit_failed"
        /\ upc = "exit_failed" => CallsOf("raised") # {}
        /\ (CallsOf("raised") # {} /\ calls[Len(calls)][2] = "dex_mode") =>
              CallsOf("repackage") = {}
        /\ upc = "exited" => Len(ModuleRepackages) = Len(application_modules)

\* Of three modules the second one failed to repack: the dex mode and two
\* modules were repacked, the third was not.
C15_Witness ==
    /\ upc = "exit_failed"
    /\ application_modules = <<"C", "A", "B">>
    /\ Len(ModuleRepackages) = 2
    /\ calls[Len(calls)] = <<"raised", "A">>

(***************************************************************************)
(* SpecLib: one LibraryManager, entered and exited, on an extracted tree.  *)
(***************************************************************************)
IsBlobPath(p) == p[Len(p)] \in {libs_xzs, libs_zstd}

InitLib ==
    /\ tree \in SUBSET LibPaths
    /\ emptyFiles \in SUBSET {p \in tree : IsBlobPath(p)}
    /\ dirs \in {{}} \cup (IF \E p \in tree : IsPrefix(<<lib>>, p) THEN {} ELSE {{<<lib>>}})
    /\ temporary_libs_dir = <<>>
    /\ libs_to_extract = <<>>
    /\ decompressions = <<>>
    /\ tree0 = tree
    /\ dirs0 = dirs
    /\ lpc = "new"
    /\ per_file_compression = EmptyDict
    /\ input_apk = EmptyDict
    /\ input_empty = {}
    /\ extracted_apk_dir \in ExtractedDirs
    /\ output_apk = <<>>
    /\ zpc = "idle"
    /\ zrun = 0
    /\ touched = 0
    /\ DexIdle /\ UnpackIdle
    /\ pc = "none"
    /\ bodyResult = "pending"
    /\ UtilIdle

LibEnter ==
    /\ LibEnterStep
    /\ UNCHANGED <<dexVars, unpackVars, pipeVars, utilVars>>
    /\ UNCHANGED <<per_file_compression, input_apk, input_empty, output_apk, zpc, zrun, touched>>

LibExit ==
    /\ LibExitStep
    /\ UNCHANGED <<dexVars, unpackVars, pipeVars, utilVars>>
    /\ UNCHANGED <<per_file_compression, input_apk, input_empty, output_apk, zpc, zrun, touched>>

NextLib ==
    \/ LibEnter
    \/ LibExit

SpecLib == InitLib /\ [][NextLib]_vars

(***************************************************************************)
(* Properties of LibraryManager (SpecLib).                                 *)
(***************************************************************************)
\* The zero-byte files named libs.zstd that were in the tree at enter.
EmptyZstd == {p \in tree0 : p[Len(p)] = libs_zstd /\ p \in emptyFiles}

\* The other files the scan looks for: libs.xzs, and libs.zstd with bytes.
OtherCandidates ==
    {p \in tree0 : \/ p[Len(p)] = libs_xzs
                   \/ p[Len(p)] = libs_zstd /\ p \notin emptyFiles}

\* C10: a zero-byte libs.zstd is never queued; when such files are the only
\* candidates, __enter__ creates no directory, invokes no decompression and
\* leaves temporary_libs_dir None, and __exit__ deletes nothing.
C10_EmptyBlobSkip ==
    lpc \in {"entered", "enter_failed", "exited"} =>
        /\ \A p \in EmptyZstd :
              \A i \in 1..Len(libs_to_extract) :
                 libs_to_extract[i] # FilePath(extracted_apk_dir, p)
        /\ (EmptyZstd # {} /\ OtherCandidates = {}) =>
              /\ lpc # "enter_failed"
              /\ libs_to_extract = <<>>
              /\ dirs = dirs0
              /\ tree = tree0
              /\ decompressions = <<>>
              /\ temporary_libs_dir = <<>>

\* An empty m/libs.zstd is the only candidate, there is no lib directory,
\* and the manager has been entered and exited.
C10_Witness ==
    /\ lpc = "exited"
    /\ tree0 = {<<m_dir, libs_zstd>>}
    /\ emptyFiles = {<<m_dir, libs_zstd>>}
    /\ dirs0 = {}
    /\ tree = tree0
    /\ dirs = {}

(***************************************************************************)
(* Properties of dex_glob (SpecDex).                                       *)
(***************************************************************************)
DexPath(n) == join(DexDirectory, n)

\* The *.dex files of the directory other than classes.dex that dex_glob
\* keeps as secondaries.
KeptSecondaries == {DexPath(n) : n \in {m \in dexFiles : GlobStarDex(m) /\ IsSecondary(DexPath(m))}}

\* C7: when dex_glob returns, the first element is the primary dex
\* classes.dex and the remaining elements are the secondary dexes, each once,
\* in ascending order of their numeric key compared as integers.
C7_DexOrdering ==
    dexOut.status = "ok" =>
        LET v == dexOut.value
        IN /\ Len(v) >= 1
           /\ v[1] = DexPath(classes_dex)
           /\ {v[i] : i \in 2..Len(v)} = KeptSecondaries
           /\ Len(v) = 1 + Cardinality(KeptSecondaries)
           /\ \A i, j \in 2..Len(v) :
                 i < j => extract_dex_number(v[i]).value <= extract_dex_number(v[j]).value

\* The example of the specification: {classes.dex, classes2.dex, classes10.dex,
\* foo-3.dex} is returned as [classes.dex, classes2.dex, foo-3.dex, classes10.dex].
C7_Witness ==
    /\ dexFiles = {classes_dex, classes2_dex, classes10_dex, foo_3_dex}
    /\ dexOut.status = "ok"
    /\ dexOut.value = <<DexPath(classes_dex), DexPath(classes2_dex),
                        DexPath(foo_3_dex), DexPath(classes10_dex)>>

\* C8: for a directory with no regular file named classes.dex, dex_glob
\* raises, returns no sequence and leaves the directory as it was.
C8_MissingPrimary ==
    (dexOut.status # "none" /\ (classes_dex \notin dexFiles0 \/ classes_dex \in dexIsDir)) =>
        /\ dexOut.status = "error"
        /\ dexOut.msg = "No primary dex found"
        /\ dexOut.value = <<>>
        /\ dexFiles = dexFiles0

\* A directory holding only classes2.dex: the call has raised.
C8_Witness ==
    /\ dexFiles0 = {classes2_dex}
    /\ dexOut.status = "error"
    /\ dexFiles = dexFiles0

\* A name with digits immediately after "classes" or after a hyphen.
HasDexDigits(n) ==
    \E i \in 1..Len(n) :
        \/ /\ i + 7 <= Len(n)
           /\ SubSeq(n, i, i + 6) = <<"c", "l", "a", "s", "s", "e", "s">>
           /\ n[i + 7] \in Digits
        \/ /\ i + 1 <= Len(n)
           /\ n[i] = "-"
           /\ n[i + 1] \in Digits

\* C9: for a directory containing classes.dex and another *.dex file whose
\* name has no digits immediately after "classes" or after a hyphen, dex_glob
\* raises instead of returning a sequence.
C9_BadSecondaryName ==
    (/\ dexOut.status # "none"
     /\ classes_dex \in dexFiles \ dexIsDir
     /\ \E n \in dexFiles \ {classes_dex} :
           endswith(n, <<".", "d", "e", "x">>) /\ ~HasDexDigits(n))
    => dexOut.status = "error"

\* The indices of a name where a run of digits starts immediately after the
\* literal "classes", and immediately after a hyphen.
AfterClasses(n) ==
    {g \in 8..Len(n) :
        n[g] \in Digits /\ SubSeq(n, g - 7, g - 1) = <<"c", "l", "a", "s", "s", "e", "s">>}

AfterHyphen(n) == {g \in 2..Len(n) : n[g] \in Digits /\ n[g - 1] = "-"}

\* The integer value of the run of digits of n that starts at index g.
RunValue(n, g) == int(SubSeq(n, g, DigitRunEnd(n, g)))

\* C14 as stated: the key of a secondary dex filename is the value of the
\* first run of digits that immediately follows "classes" or a hyphen.
C14_FirstRunAsStated ==
    dexOut.status # "none" =>
        \A n \in {m \in dexFiles : AfterClasses(m) \cup AfterHyphen(m) # {}} :
            /\ ~extract_dex_number(DexPath(n)).raised
            /\ extract_dex_number(DexPath(n)).value =
                  RunValue(n, SetMin(AfterClasses(n) \cup AfterHyphen(n)))

\* C14, amended: for a filename that starts with "classes" and a digit the
\* key is the value of that run of digits; otherwise, when some hyphen is
\* immediately followed by a digit, it is the value of the run after the
\* last such hyphen; otherwise it is the value of the run after the first
\* "classes" that a digit follows; a filename with none of these raises.
C14_OrderingKey ==
    dexOut.status # "none" =>
        \A n \in dexFiles :
            LET r == extract_dex_number(DexPath(n))
            IN IF 8 \in AfterClasses(n)
               THEN ~r.raised /\ r.value = RunValue(n, 8)
               ELSE IF AfterHyphen(n) # {}
               THEN ~r.raised /\ r.value = RunValue(n, SetMax(AfterHyphen(n)))
               ELSE IF AfterClasses(n) # {}
               THEN ~r.raised /\ r.value = RunValue(n, SetMin(AfterClasses(n)))
               ELSE r.raised

\* dex_glob has sorted a-7-1.dex (key 1) before bar-2.dex and
\* classes2-5.dex (both of key 2).
C14_Witness ==
    /\ dexFiles = {classes_dex, a_7_1_dex, bar_2_dex, classes2_5_dex}
    /\ dexOut.status = "ok"
    /\ dexOut.value[2] = DexPath(a_7_1_dex)
    /\ {dexOut.value[3], dexOut.value[4]} = {DexPath(bar_2_dex), DexPath(classes2_5_dex)}

\* C13: when dex_glob returns for a directory containing classes.dex, every
\* other file of the directory that glob's *.dex matches is in the returned
\* sequence exactly once (a bad name makes it raise instead): none is
\* silently left out.
C13_SecondaryCompleteness ==
    dexOut.status = "ok" =>
        \A n \in {m \in dexFiles \ {classes_dex} : GlobStarDex(m)} :
            Cardinality({i \in 1..Len(dexOut.value) : dexOut.value[i] = DexPath(n)}) = 1

(***************************************************************************)
(* Properties of ZipManager (SpecZip).                                     *)
(***************************************************************************)
OutputEntries == IF output_apk = <<>> THEN <<>> ELSE output_apk[1]

OutputNames == {OutputEntries[i][1] : i \in 1..Len(OutputEntries)}

\* An archive name that is a file directly in META-INF.
DirectlyInMetaInf(p) == Len(p) = 2 /\ p[1] = META_INF

\* C1 as stated: after enter and exit with the tree untouched, the output
\* has the entry paths of the input, each with its compression method.
C1_RoundTripAsStated ==
    (zpc = "exited" /\ touched = 0) =>
        /\ OutputNames = DOMAIN input_apk
        /\ \A i \in 1..Len(OutputEntries) :
              OutputEntries[i][2] = input_apk[OutputEntries[i][1]]

\* C1, amended: after enter and exit with the tree untouched, every entry of
\* the output is an entry of the input with the compression method it had
\* there, no entry is written twice, and every input entry that is not a
\* file directly in META-INF is in the output.
C1_RoundTrip ==
    (zpc = "exited" /\ touched = 0) =>
        /\ \A i \in 1..Len(OutputEntries) :
              /\ OutputEntries[i][1] \in DOMAIN input_apk
              /\ OutputEntries[i][2] = input_apk[OutputEntries[i][1]]
        /\ \A i, j \in 1..Len(OutputEntries) :
              OutputEntries[i][1] = OutputEntries[j][1] => i = j
        /\ \A n \in DOMAIN input_apk :
              ~DirectlyInMetaInf(SplitPath(n)) => n \in OutputNames

\* An untouched round trip of the full archive into an absolute directory:
\* the signature file is gone, and a stored entry is written stored.
C1_Witness ==
    /\ zpc = "exited"
    /\ touched = 0
    /\ DOMAIN input_apk = ZipNames
    /\ ArchiveName(<<META_INF, CERT_RSA>>) \notin OutputNames
    /\ \E i \in 1..Len(OutputEntries) : OutputEntries[i][2] = ZIP_STORED
    /\ \E i \in 1..Len(OutputEntries) : OutputEntries[i][2] = ZIP_DEFLATED

\* C4: every file __exit__ writes has the compression method recorded for
\* its path when the path was an entry of the input archive read by this
\* instance's __enter__, and the deflate method when it was not.
C4_PerEntryCompression ==
    zpc = "exited" =>
        \A i \in 1..Len(OutputEntries) :
            IF OutputEntries[i][1] \in DOMAIN input_apk
            THEN OutputEntries[i][2] = input_apk[OutputEntries[i][1]]
            ELSE OutputEntries[i][2] = ZIP_DEFLATED

\* C19: a ZipManager instance that runs after another one in the same
\* process writes every path that was absent from its own input archive
\* with the deflate method, whatever the earlier instance recorded.
C19_InstanceIsolation ==
    (zrun > 1 /\ zpc = "exited") =>
        \A i \in 1..Len(OutputEntries) :
            OutputEntries[i][1] \notin DOMAIN input_apk =>
                OutputEntries[i][2] = CompressType(EmptyDict, OutputEntries[i][1])

\* The order of the walk, stated on two file paths: at the first name where
\* they differ, a file of the directory comes before everything below its
\* subdirectories, and otherwise the smaller name comes first.
WalkBefore(p, q) ==
    \E k \in 1..Len(p) :
        /\ k <= Len(q)
        /\ \A i \in 1..(k - 1) : p[i] = q[i]
        /\ p[k] # q[k]
        /\ \/ Len(p) = k /\ Len(q) > k
           \/ (Len(p) = k <=> Len(q) = k) /\ StrLess(p[k], q[k])

\* C5: the sequence of entry paths __exit__ writes is determined by the set
\* of file paths of the tree alone: it holds each file once, the files of a
\* directory in ascending name order before its subdirectories, and these in
\* ascending name order, whatever order the filesystem enumerates names in.
C5_DeterministicOrder ==
    zpc = "exited" =>
        /\ OutputNames = {ArchiveName(p) : p \in tree}
        /\ Len(OutputEntries) = Cardinality(tree)
        /\ \A i, j \in 1..Len(OutputEntries) :
              i < j => WalkBefore(SplitPath(OutputEntries[i][1]),
                                  SplitPath(OutputEntries[j][1]))

\* A tree with a file at the root, two files in one directory and two
\* directories has been written.
C5_Witness ==
    /\ zpc = "exited"
    /\ {<<classes_dex>>, <<lib, a_so>>, <<lib, b_so>>, <<META_INF, svc, x_name>>} \subseteq tree
    /\ Len(OutputEntries) >= 4

\* C6: after __exit__ the output holds no entry that is a plain file
\* directly in the META-INF directory of the extracted tree, and every other
\* file of the tree is written.
C6_SignatureRemoval ==
    [][(zpc = "entered" /\ zpc' = "exited") =>
          LET names == {output_apk'[1][i][1] : i \in 1..Len(output_apk'[1])}
          IN \A p \in tree :
                IF DirectlyInMetaInf(p)
                THEN ArchiveName(p) \notin names
                ELSE ArchiveName(p) \in names]_vars

(***************************************************************************)
(* SpecPipeline: one run of the orchestrator, which opens the ZipManager,  *)
(* the UnpackManager and the LibraryManager, yields to the transformation  *)
(* step, and closes them in reverse order.  A failure of an enter or of an *)
(* exit ends the run; after a failure of the transformation step only the  *)
(* manager that cleans up is closed.                                       *)
(***************************************************************************)
PipePaths ==
    { <<classes_dex>>, <<META_INF, CERT_RSA>>, <<assets, libs_xzs>>, <<m_dir, libs_zstd>>,
      <<lib, a_so>> }

PipeNames == {ArchiveName(p) : p \in PipePaths}

\* The module lists detection returns in the runs of the pipeline.
PipeDetections == { <<>>, <<"B">>, <<"B", "A">> }

\* A mutation of RepackAfterFailure: the managers are closed as by a with
\* statement, whose __exit__ runs when the body raises.
RepackAlways == TRUE

\* Whether the orchestrator calls the __exit__ of the managers that repack
\* (UnpackManager, ZipManager) after the transformation step has failed.
\* The __exit__ of the manager that only cleans up (LibraryManager) runs
\* in both cases.
RepackAfterFailure == FALSE

InitPipeline ==
    /\ pc = "start"
    /\ bodyResult = "pending"
    /\ UtilIdle
    /\ per_file_compression = EmptyDict
    /\ \E S \in SUBSET PipeNames : input_apk = [n \in S |-> ZIP_STORED]
    /\ input_empty \in SUBSET {n \in DOMAIN input_apk : IsBlobPath(SplitPath(n))}
    /\ extracted_apk_dir = <<"/", "t", "/", "x">>
    /\ output_apk = <<>>
    /\ zpc = "new"
    /\ zrun = 1
    /\ touched = 0
    /\ application_modules = <<>>
    /\ detectable \in PipeDetections
    /\ calls = <<>>
    /\ store_files = <<>>
    /\ upc = "new"
    /\ temporary_libs_dir = <<>>
    /\ libs_to_extract = <<>>
    /\ decompressions = <<>>
    /\ tree0 = {}
    /\ dirs0 = {}
    /\ lpc = "new"
    /\ FsEmpty /\ DexIdle

PZipEnter ==
    /\ UNCHANGED utilVars
    /\ pc = "start"
    /\ ZipEnterStep
    /\ pc' = "zip_open"
    /\ UNCHANGED <<dexVars, unpackVars, libVars, bodyResult>>

PUnpackEnter ==
    /\ UNCHANGED utilVars
    /\ pc = "zip_open"
    /\ UnpackEnterStep
    /\ pc' = IF upc' = "entered" THEN "unpack_open" ELSE "aborted"
    /\ UNCHANGED <<dexVars, fsVars, zipVars, libVars, bodyResult>>

PLibEnter ==
    /\ UNCHANGED utilVars
    /\ pc = "unpack_open"
    /\ LibEnterStep
    /\ pc' = IF lpc' = "entered" THEN "lib_open" ELSE "aborted"
    /\ UNCHANGED <<dexVars, unpackVars, bodyResult>>
    /\ UNCHANGED <<per_file_compression, input_apk, input_empty, output_apk, zpc, zrun, touched>>

\* The transformation step succeeds; it may have written a file.
PBodyOk ==
    /\ UNCHANGED utilVars
    /\ pc = "lib_open"
    /\ bodyResult' = "ok"
    /\ pc' = "body_done"
    /\ \/ UNCHANGED <<tree, touched>>
       \/ /\ CanCreate(tree, dirs, <<new_bin>>)
          /\ tree' = tree \cup {<<new_bin>>}
          /\ touched' = touched + 1
    /\ UNCHANGED <<dexVars, unpackVars, libVars, emptyFiles, dirs>>
    /\ UNCHANGED <<per_file_compression, input_apk, input_empty, extracted_apk_dir,
                   output_apk, zpc, zrun>>

\* The transformation step raises.
PBodyFail ==
    /\ UNCHANGED utilVars
    /\ pc = "lib_open"
    /\ bodyResult' = "raised"
    /\ pc' = "body_done"
    /\ UNCHANGED <<dexVars, fsVars, zipVars, unpackVars, libVars>>

PLibExit ==
    /\ UNCHANGED utilVars
    /\ pc = "body_done"
    /\ LibExitStep
    /\ pc' = "lib_closed"
    /\ UNCHANGED <<dexVars, unpackVars, bodyResult>>
    /\ UNCHANGED <<per_file_compression, input_apk, input_empty, output_apk, zpc, zrun, touched>>

PUnpackExit ==
    /\ UNCHANGED utilVars
    /\ pc = "lib_closed"
    /\ bodyResult = "raised" => RepackAfterFailure
    /\ UnpackExitStep
    /\ pc' = IF upc' = "exited" THEN "unpack_closed" ELSE "aborted"
    /\ UNCHANGED <<dexVars, fsVars, zipVars, libVars, bodyResult>>

PZipExit ==
    /\ UNCHANGED utilVars
    /\ pc = "unpack_closed"
    /\ ZipExitStep
    /\ pc' = "done"
    /\ UNCHANGED <<dexVars, unpackVars, libVars, bodyResult>>

NextPipeline ==
    \/ PZipEnter
    \/ PUnpackEnter
    \/ PLibEnter
    \/ PBodyOk
    \/ PBodyFail
    \/ PLibExit
    \/ PUnpackExit
    \/ PZipExit

SpecPipeline == InitPipeline /\ [][NextPipeline]_vars

(***************************************************************************)
(* Properties of the run (SpecPipeline).                                   *)
(***************************************************************************)
IsRepackage(c) == c[1] \in {"dex_repackage", "repackage"}

ScratchDir == <<lib, extracted_libs>>

FlagNames ==
    { <<"c", "a", "c", "h", "e">>, <<"n", "o", "-", "c", "a", "c", "h", "e">>,
      <<"n", "o", "x">> }

FlagPrefixes ==
    { << <<>>, <<"n", "o", "-">> >>,
      << <<"w", "i", "t", "h", "-">>, <<"w", "i", "t", "h", "o", "u", "t", "-">> >> }

\* f"--{on_prefix}{flag_name}" and f"--{off_prefix}{flag_name}"
EnablingSpelling == <<"-", "-">> \o on_prefix \o flag_name

NegatingSpelling == <<"-", "-">> \o off_prefix \o flag_name

\* FlagAction.__call__: the value stored in the destination field
FlagAction(option_string, offp) == ~startswith(option_string, <<"-", "-">> \o offp)

InitFlag ==
    /\ flag_name \in FlagNames
    /\ \E pr \in FlagPrefixes : on_prefix = pr[1] /\ off_prefix = pr[2]
    /\ \E n \in 0..MaxArgs : argv \in [1..n -> {EnablingSpelling, NegatingSpelling}]
    /\ parsed = <<>>
    /\ namespace = FALSE
    /\ TempIdle /\ MoveIdle
    /\ FsEmpty /\ DexIdle /\ ZipIdle /\ UnpackIdle /\ LibIdle
    /\ pc = "none"
    /\ bodyResult = "pending"

\* The parser consumes the next argument: it is one of the option strings of
\* the action, which is called with it.
ParseArg ==
    /\ argv # <<>>
    /\ namespace' = FlagAction(Head(argv), off_prefix)
    /\ parsed' = Append(parsed, IF Head(argv) = EnablingSpelling THEN "on" ELSE "off")
    /\ argv' = Tail(argv)
    /\ UNCHANGED <<flag_name, on_prefix, off_prefix>>
    /\ UNCHANGED <<tempVars, moveVars>>
    /\ UNCHANGED <<dexVars, fsVars, zipVars, unpackVars, libVars, pipeVars>>

NextFlag == ParseArg

SpecFlag == InitFlag /\ [][NextFlag]_vars

\* C12: after any sequence of occurrences of the two spellings, the
\* destination field is True when the last occurrence is the enabling
\* spelling, False when it is the negating spelling, and False when there
\* was no occurrence.
C12_YesNoFlag ==
    namespace = (parsed # <<>> /\ parsed[Len(parsed)] = "on")

(***************************************************************************)
(* SpecTemp: with_temp_cleanup(fn, always_clean), where fn makes temporary *)
(* directories with make_temp_dir and then returns or raises.              *)
(***************************************************************************)
\* remove_temp_dirs: shutil.rmtree of every registered directory; the
\* directories left on disk.
remove_temp_dirs(registered, existing) == existing \ Range(registered)

\* A mutation of SuccessAtStart: the cleanup is unconditional.
CleanAlways(flag) == TRUE

\* success = always_clean
SuccessAtStart(flag) == flag

\* The finally clause: if success: remove_temp_dirs()
Finally(success, registered, existing) ==
    IF success THEN remove_temp_dirs(registered, existing) ELSE existing

InitTemp ==
    /\ temp_dirs = <<>>
    /\ tmpExisting = {}
    /\ tmpMade = 0
    /\ always_clean \in BOOLEAN
    /\ tpc = "new"
    /\ FlagIdle /\ MoveIdle
    /\ FsEmpty /\ DexIdle /\ ZipIdle /\ UnpackIdle /\ LibIdle
    /\ pc = "none"
    /\ bodyResult = "pending"

\* with_temp_cleanup is called and calls fn.
CallFn ==
    /\ tpc = "new"
    /\ tpc' = "running"
    /\ UNCHANGED <<temp_dirs, tmpExisting, tmpMade, always_clean>>
    /\ UNCHANGED <<flagVars, moveVars>>
    /\ UNCHANGED <<dexVars, fsVars, zipVars, unpackVars, libVars, pipeVars>>

\* fn calls make_temp_dir(name, debug): mkdtemp makes a new directory, which
\* is registered unless debug.
MakeTempDir ==
    /\ tpc = "running"
    /\ tmpMade < MaxTemp
    /\ \E debug \in BOOLEAN :
          LET directory == tmpMade + 1
          IN /\ tmpExisting' = tmpExisting \cup {directory}
             /\ temp_dirs' = IF ~debug THEN Append(temp_dirs, directory) ELSE temp_dirs
    /\ tmpMade' = tmpMade + 1
    /\ UNCHANGED <<always_clean, tpc>>
    /\ UNCHANGED <<flagVars, moveVars>>
    /\ UNCHANGED <<dexVars, fsVars, zipVars, unpackVars, libVars, pipeVars>>

\* fn returns: success = True, then the finally clause.
FnReturns ==
    /\ tpc = "running"
    /\ tmpExisting' = Finally(TRUE, temp_dirs, tmpExisting)
    /\ tpc' = "returned"
    /\ UNCHANGED <<temp_dirs, tmpMade, always_clean>>
    /\ UNCHANGED <<flagVars, moveVars>>
    /\ UNCHANGED <<dexVars, fsVars, zipVars, unpackVars, libVars, pipeVars>>

\* fn raises: the finally clause runs with success as it was set at the
\* start, and the exception propagates.
FnRaises ==
    /\ tpc = "running"
    /\ tmpExisting' = Finally(SuccessAtStart(always_clean), temp_dirs, tmpExisting)
    /\ tpc' = "raised"
    /\ UNCHANGED <<temp_dirs, tmpMade, always_clean>>
    /\ UNCHANGED <<flagVars, moveVars>>
    /\ UNCHANGED <<dexVars, fsVars, zipVars, unpackVars, libVars, pipeVars>>

NextTemp ==
    \/ CallFn
    \/ MakeTempDir
    \/ FnReturns
    \/ FnRaises

SpecTemp == InitTemp /\ [][NextTemp]_vars

MoveNames == {classes_dex, classes2_dex, classes10_dex, foo_3_dex}

MovePaths == {join(DexDirectory, n) : n \in MoveNames}

\* A mutation of DexDirName: one directory name for every position.
SameDirName(idx) == <<"d", "e", "x">>

\* "dex" + str(idx)
DexDirName(idx) == <<"d", "e", "x">> \o str(idx)

\* The loop of move_dexen_to_directories from position idx (zero-based) on:
\* os.mkdir raises when dirpath exists, shutil.move raises when dexpath does
\* not; what was done before an exception stays done.
RECURSIVE MoveLoop(_, _, _, _, _, _)
MoveLoop(root, paths, idx, files, ds, res) ==
    IF idx >= Len(paths)
    THEN [status |-> "ok", value |-> res, files |-> files, dirs |-> ds]
    ELSE LET dexpath == paths[idx + 1]
             dexname == basename(dexpath)
             dirpath == join(root, DexDirName(idx))
         IN IF dirpath \in ds \cup files
            THEN [status |-> "error", value |-> <<>>, files |-> files, dirs |-> ds]
            ELSE IF dexpath \notin files
            THEN [status |-> "error", value |-> <<>>, files |-> files,
                  dirs |-> ds \cup {dirpath}]
            ELSE MoveLoop(root, paths, idx + 1,
                          (files \ {dexpath}) \cup {join(dirpath, dexname)},
                          ds \cup {dirpath},
                          Append(res, join(dirpath, dexname)))

move_dexen_to_directories(root, paths, files, ds) == MoveLoop(root, paths, 0, files, ds, <<>>)

InitMove ==
    /\ \E n \in 0..MaxMove : dexpaths \in [1..n -> MovePaths]
    /\ mvFiles = MovePaths
    /\ mvFiles0 = mvFiles
    /\ mvDirs \in {{}, {join(DexDirectory, <<"d", "e", "x", "1">>)}}
    /\ mvDirs0 = mvDirs
    /\ mvOut = [status |-> "none", value |-> <<>>]
    /\ FlagIdle /\ TempIdle
    /\ FsEmpty /\ DexIdle /\ ZipIdle /\ UnpackIdle /\ LibIdle
    /\ pc = "none"
    /\ bodyResult = "pending"

\* A call of move_dexen_to_directories(root, dexpaths).
MoveDexen ==
    /\ mvOut.status = "none"
    /\ LET r == move_dexen_to_directories(DexDirectory, dexpaths, mvFiles, mvDirs)
       IN /\ mvOut' = [status |-> r.status, value |-> r.value]
          /\ mvFiles' = r.files
          /\ mvDirs' = r.dirs
    /\ UNCHANGED <<dexpaths, mvFiles0, mvDirs0>>
    /\ UNCHANGED <<flagVars, tempVars>>
    /\ UNCHANGED <<dexVars, fsVars, zipVars, unpackVars, libVars, pipeVars>>

NextMove == MoveDexen

SpecMove == InitMove /\ [][NextMove]_vars

\* The directory of position i (zero-based): root/dex<i>.
PositionDir(i) == join(DexDirectory, <<"d", "e", "x">> \o str(i))

\* The list holds distinct files, and no directory of a position exists.
MovePrecondition ==
    /\ \A i, j \in 1..Len(dexpaths) : dexpaths[i] = dexpaths[j] => i = j
    /\ \A i \in 1..Len(dexpaths) : dexpaths[i] \in mvFiles0
    /\ \A i \in 0..(Len(dexpaths) - 1) : PositionDir(i) \notin mvDirs0 \cup mvFiles0

\* C18: for a list of n distinct dex files, the call moves the i-th one
\* (zero-based) into the directory root/dex<i>, which it creates, and returns
\* the n new paths in the order of the list; each dex is then the only file
\* of its directory and the other files are where they were.
C18_DexRelocation ==
    mvOut.status # "none" =>
        /\ MovePrecondition <=> mvOut.status = "ok"
        /\ mvOut.status = "ok" =>
              /\ Len(mvOut.value) = Len(dexpaths)
              /\ \A i \in 0..(Len(dexpaths) - 1) :
                    /\ mvOut.value[i + 1] = join(PositionDir(i), basename(dexpaths[i + 1]))
                    /\ PositionDir(i) \in mvDirs \ mvDirs0
                    /\ {f \in mvFiles : startswith(f, PositionDir(i) \o <<"/">>)}
                          = {mvOut.value[i + 1]}
                    /\ dexpaths[i + 1] \notin mvFiles
              /\ mvFiles0 \ Range(dexpaths) \subseteq mvFiles
              /\ Cardinality(mvFiles) = Cardinality(mvFiles0)

\* Three dexes given in an order that is not the sorted one have been moved
\* to dex0, dex1 and dex2.
C18_Witness ==
    /\ mvOut.status = "ok"
    /\ dexpaths = <<join(DexDirectory, foo_3_dex), join(DexDirectory, classes_dex),
                    join(DexDirectory, classes10_dex)>>
    /\ mvOut.value[3] = join(PositionDir(2), classes10_dex)

(***************************************************************************)
(* Further properties of LibraryManager (SpecLib).                         *)
(***************************************************************************)
\* C20: __exit__ deletes only what its own __enter__ created.  When lib
\* existed before enter, after exit it exists with all the files and
\* directories it held and lib/__extracted_libs__ is gone; when lib did not
\* exist, after exit neither lib nor lib/__extracted_libs__ exists; when
\* enter created nothing, exit changes nothing.  Outside lib nothing changes.
C20_TeardownFrame ==
    /\ (lpc = "entered" /\ temporary_libs_dir # <<>>) =>
          /\ ScratchDir \in dirs
          /\ tree0 \subseteq tree
          /\ dirs0 \subseteq dirs
    /\ lpc = "exited" =>
          /\ temporary_libs_dir = <<>> => (tree = tree0 /\ dirs = dirs0)
          /\ (temporary_libs_dir # <<>> /\ Exists(tree0, dirs0, <<lib>>)) =>
                /\ Exists(tree, dirs, <<lib>>)
                /\ {p \in tree : IsPrefix(<<lib>>, p)} = {p \in tree0 : IsPrefix(<<lib>>, p)}
                /\ {d \in dirs : IsPrefix(<<lib>>, d)} = {d \in dirs0 : IsPrefix(<<lib>>, d)}
                /\ ~Exists(tree, dirs, ScratchDir)
          /\ (temporary_libs_dir # <<>> /\ ~Exists(tree0, dirs0, <<lib>>)) =>
                /\ ~Exists(tree, dirs, <<lib>>)
                /\ ~Exists(tree, dirs, ScratchDir)
          /\ {p \in tree : ~IsPrefix(<<lib>>, p)} = {p \in tree0 : ~IsPrefix(<<lib>>, p)}
          /\ {d \in dirs : ~IsPrefix(<<lib>>, d)} = {d \in dirs0 : ~IsPrefix(<<lib>>, d)}

\* A blob was expanded beside lib/a.so, and after exit lib/a.so is still
\* there.
C20_Witness ==
    /\ lpc = "exited"
    /\ <<lib, a_so>> \in tree0
    /\ decompressions # <<>>
    /\ temporary_libs_dir = <<ScratchDir>>
    /\ <<lib, a_so>> \in tree

====
